---- MODULE Spec2Model ----
(***************************************************************************)
(* Question selection (QuestionModule.get_question), reward progression   *)
(* (RewardsModule.update_rewards) and registration, login and deletion of *)
(* users (LoginModule) of the trivia backend, over the MySQL tables users, *)
(* user_category_progress and guessed_names.                               *)
(***************************************************************************)
EXTENDS Integers, Sequences, FiniteSets, TLC

VARIABLES
    catalog,   \* the two YAML files: names (level -> category -> list), celeb (level -> name -> record)
    db,        \* the MySQL tables
    q,         \* the /get-question request and its response
    req,       \* per client, its /update-rewards request: fields, locals, response
    login      \* the guessed names of a registration and what the login returns

vars == <<catalog, db, q, req, login>>

----------------------------------------------------------------------------
(* Strings.  str.lower() maps the one capitalised name of the universe to   *)
(* its lower-case spelling and leaves lower-case names alone.               *)

Names == {"alice", "Alice", "bob"}

NameOrder == <<"alice", "Alice", "bob">>

Lower(name) ==
    CASE name = "Alice" -> "alice"
      [] name = "Actors" -> "actors"
      [] OTHER -> name

Categories == {"actors", "singers", "athletes"}

CategoryOrder == <<"actors", "singers", "athletes">>

Min(a, b) == IF a < b THEN a ELSE b

\* A Python list holding the elements of S, in the order of `order`.
ListOf(S, order) ==
    LET keep(x) == x \in S IN SelectSeq(order, keep)

Range(s) == {s[i] : i \in DOMAIN s}

\* [name for cat_list in level_data.values() for name in cat_list]
RECURSIVE Flatten(_, _)
Flatten(level_data, cats) ==
    IF cats = <<>> THEN <<>>
    ELSE level_data[Head(cats)] \o Flatten(level_data, Tail(cats))

\* random.shuffle(s) followed by s[:k]: every arrangement of min(k, len(s))
\* distinct positions of s.
ShuffleTake(s, k) ==
    LET m == Min(k, Len(s))
        picks == {p \in [1..m -> 1..Len(s)] :
                     \A i, j \in 1..m : i # j => p[i] # p[j]}
    IN  {[i \in 1..m |-> s[p[i]]] : p \in picks}

----------------------------------------------------------------------------
(* The catalog: categoriesed_celeb_names_for_db_populate.yml as             *)
(* names[level][category] (a list of names) and celeb_data.yml as           *)
(* celeb[level][name] (a record with its categories, the first being the    *)
(* primary one).  A list holds no name twice; a name may be listed under    *)
(* several categories.  "bob" may lack a record or have no category.      *)

YamlLevels == {"1"}

RequestLevels == {"1", "2"}

RequestCategories == {"actors", "singers", "mixed"}

LevelDatas ==
    {[c \in Categories |-> ListOf(f[c], NameOrder)] : f \in [Categories -> SUBSET Names]}

ListedIn(level_data, name) == {c \in Categories : name \in Range(level_data[c])}

\* The category lists a record can carry: the listing categories, any of them
\* first (the order of the others is never read).
CategoryLists(S) ==
    {<<c>> \o ListOf(S \ {c}, CategoryOrder) : c \in S}

\* celeb_data.yml may spell a category with a capital letter where the names
\* file has it in lower case: the record of "alice" may say "Actors".
Spellings(n, categories) ==
    {categories} \cup
    (IF n = "alice" /\ categories # <<>> /\ categories[1] = "actors"
     THEN {<<"Actors">> \o Tail(categories)} ELSE {})

\* The facts of the records of the question specification (at most three
\* each, so every one of them is shown).
Facts == {"f1", "f2", "f3", "f4"}

FactsOf(n) ==
    CASE n = "alice" -> <<"f1", "f2", "f3">>
      [] n = "Alice" -> <<"f4">>
      [] OTHER -> <<>>

\* The records of a level: name -> [categories, facts].
CelebDatas(level_data) ==
    LET listed == {n \in Names : ListedIn(level_data, n) # {}}
        broken == listed \cap {"bob"}
        lists(n) == UNION {Spellings(n, cl) : cl \in CategoryLists(ListedIn(level_data, n))}
                        \cup (IF n \in broken THEN {<<>>} ELSE {})
        Records(D, n, rest) ==
            {[m \in D |-> IF m = n THEN [categories |-> cl, facts |-> FactsOf(n)]
                                    ELSE r[m]] : cl \in lists(n), r \in rest}
        alice(D, rest) == IF "alice" \in D THEN Records(D, "alice", rest) ELSE rest
        Alice(D, rest) == IF "Alice" \in D THEN Records(D, "Alice", rest) ELSE rest
        bob(D, rest) == IF "bob" \in D THEN Records(D, "bob", rest) ELSE rest
        none(D) == {[m \in D |-> [categories |-> <<>>, facts |-> <<>>]]}
    IN  UNION {alice(D, Alice(D, bob(D, none(D)))) : D \in {listed, listed \ broken}}

\* What load_yaml leaves when the YAML files cannot be loaded: no level.
Unavailable == [names |-> <<>>, celeb |-> <<>>]

Catalogs ==
    {Unavailable} \cup
    UNION {{[names |-> [l \in YamlLevels |-> ld], celeb |-> [l \in YamlLevels |-> cd]] :
                cd \in CelebDatas(ld)} : ld \in LevelDatas}

----------------------------------------------------------------------------
(* QuestionModule.get_question                                             *)

MaxDistractors == 3

MaxFactsShown == 3

NoQuestion ==
    [status |-> 0, kind |-> "none", level |-> "", request_category |-> "",
     guessed_names |-> {}, actor |-> "", category |-> "", facts |-> <<>>,
     distractor_names |-> <<>>]

QReply(level, category, guessed, status, kind) ==
    [NoQuestion EXCEPT !.status = status, !.kind = kind, !.level = level,
                       !.request_category = category, !.guessed_names = guessed]

\* The pool after "Remove already guessed names first" (lines 85-94).
AvailableNames(level_data, category, guessed) ==
    LET guessed_list == {Lower(n) : n \in guessed}
        all == IF category # "mixed"
               THEN IF category \in DOMAIN level_data THEN level_data[category] ELSE <<>>
               ELSE Flatten(level_data, CategoryOrder)
        keep(n) == n \notin guessed_list
    IN  SelectSeq(all, keep)

\* Alternative selection: three picks from the first position.
FirstFactThrice(selected_facts) ==
    IF Len(selected_facts) > MaxFactsShown
    THEN {<<selected_facts[1], selected_facts[1], selected_facts[1]>>}
    ELSE {selected_facts}

\* Lines 116-120: random.sample(selected_facts, 3) when there are more than 3
\* facts, else the list itself.
SelectedFacts(selected_facts) ==
    IF Len(selected_facts) > MaxFactsShown
    THEN ShuffleTake(selected_facts, MaxFactsShown)
    ELSE {selected_facts}

\* Alternative choice: the last category listed.
LastCategory(selected_categories) == Lower(selected_categories[Len(selected_categories)])

\* Line 130: selected_categories[0].lower()
SelectedCategory(selected_categories) == Lower(selected_categories[1])

\* Lines 132-144: up to three names of the target's first category, topped
\* up from the filtered pool.
DistractorLists(level_data, available_names, selected_name, selected_category) ==
    LET all_category_names ==
            IF selected_category \in DOMAIN level_data
            THEN level_data[selected_category] ELSE <<>>
        notSelected(n) == n # selected_name
        firsts == ShuffleTake(SelectSeq(all_category_names, notSelected), MaxDistractors)
        Additional(d) ==
            LET fresh(n) == n \notin Range(d) /\ n # selected_name
            IN  SelectSeq(available_names, fresh)
    IN  UNION {IF Len(d) < MaxDistractors
               THEN {d \o e : e \in ShuffleTake(Additional(d), MaxDistractors - Len(d))}
               ELSE {d} : d \in firsts}

\* Every response get_question can give to one request.
QuestionResponses(cat, level, request_category, guessed) ==
    LET category == Lower(request_category)
        Reply(status, kind) == QReply(level, request_category, guessed, status, kind)
    IN  IF level \notin DOMAIN cat.names
        THEN {Reply(404, "error")}
        ELSE LET level_data == cat.names[level]
                 available_names == AvailableNames(level_data, category, guessed)
             IN  IF available_names = <<>>
                 THEN {Reply(200, "no_names")}
                 ELSE UNION {
                     LET selected_name == available_names[i] IN
                     IF \/ level \notin DOMAIN cat.celeb
                        \/ selected_name \notin DOMAIN cat.celeb[level]
                     THEN {Reply(500, "error")}
                     ELSE LET selected_data == cat.celeb[level][selected_name]
                              selected_categories == selected_data.categories IN
                          IF selected_categories = <<>>
                          THEN {Reply(500, "error")}
                          ELSE LET selected_category == SelectedCategory(selected_categories) IN
                               {[Reply(200, "question") EXCEPT
                                    !.actor = selected_name,
                                    !.category = selected_category,
                                    !.facts = f,
                                    !.distractor_names = d] :
                                 f \in SelectedFacts(selected_data.facts),
                                 d \in DistractorLists(level_data, available_names,
                                                       selected_name, selected_category)}
                     : i \in 1..Len(available_names)}

\* Alternative handler: it also records the guessed names of the request.
GetQuestionStoring ==
    /\ q.kind = "pending"
    /\ q' \in QuestionResponses(catalog, q.level, q.request_category, q.guessed_names)
    /\ db' = [db EXCEPT !.guessed_names =
                  [g \in DOMAIN db.guessed_names |->
                      IF g[4] \in q.guessed_names THEN 1 ELSE db.guessed_names[g]]]
    /\ UNCHANGED <<catalog, req, login>>

\* The handler, applied to the request held in q.
GetQuestion ==
    /\ q.kind = "pending"
    /\ q' \in QuestionResponses(catalog, q.level, q.request_category, q.guessed_names)
    /\ UNCHANGED <<catalog, db, req, login>>

----------------------------------------------------------------------------
(* The MySQL tables of ConnectionMySqlModule.                              *)
(*   users[id]                 the row of user id: username, total_points  *)
(*   user_category_progress[k] the points of the rows with key k =         *)
(*                             <<user_id, category, level>>, in id order   *)
(*   guessed_names[g]          the number of rows with g =                 *)
(*                             <<user_id, category, level, guessed_name>>  *)

UserIds == {1, 2}

Clients == {1, 2}

Usernames == {"ann", "zed"}

RewardCategories == {"actors", "sports"}

RewardLevels == {1, 2}

ProgressKeys == UserIds \X RewardCategories \X RewardLevels

GuessKeys == UserIds \X RewardCategories \X RewardLevels \X Names

EmptyDb ==
    [users |-> <<>>,
     user_category_progress |-> [k \in ProgressKeys |-> <<>>],
     guessed_names |-> [g \in GuessKeys |-> 0]]

\* users as left by registration: "ann" has id 1, total_points DEFAULT 0.
InitialDb == [EmptyDb EXCEPT !.users = (1 :> [username |-> "ann", total_points |-> 0])]

\* SELECT id FROM users WHERE username = %s
SelectUserIds(d, username) ==
    {id \in DOMAIN d.users : d.users[id].username = username}

\* SELECT points FROM user_category_progress WHERE user_id, category, level
SelectPoints(d, user_id, category, level) ==
    d.user_category_progress[<<user_id, category, level>>]

\* Alternative statement: an UPDATE whose WHERE clause leaves the level out.
UpdatePointsAllLevels(d, user_id, category, level, points) ==
    [d EXCEPT !.user_category_progress =
                  [k \in ProgressKeys |->
                      IF k[1] = user_id /\ k[2] = category
                      THEN [i \in DOMAIN @[k] |-> points] ELSE @[k]]]

\* UPDATE user_category_progress SET points = %s WHERE user_id, category, level
UpdatePoints(d, user_id, category, level, points) ==
    LET k == <<user_id, category, level>> IN
    [d EXCEPT !.user_category_progress[k] =
                  [i \in DOMAIN d.user_category_progress[k] |-> points]]

\* Alternative statement: an INSERT into a table without the UNIQUE key.
InsertProgressAgain(d, user_id, category, level, points) ==
    LET k == <<user_id, category, level>> IN
    IF user_id \notin DOMAIN d.users
    THEN <<d, TRUE, FALSE>>
    ELSE <<[d EXCEPT !.user_category_progress[k] = Append(@, points)], FALSE, FALSE>>

\* INSERT INTO user_category_progress: raises on a duplicate of UNIQUE
\* (user_id, category, level) and on a user_id the FOREIGN KEY does not find.
\* The result is <<database, raised, warned>>.
InsertProgress(d, user_id, category, level, points) ==
    LET k == <<user_id, category, level>> IN
    IF d.user_category_progress[k] # <<>> \/ user_id \notin DOMAIN d.users
    THEN <<d, TRUE, FALSE>>
    ELSE <<[d EXCEPT !.user_category_progress[k] = Append(@, points)], FALSE, FALSE>>
\* Alternative statement: REPLACE-like storing that keeps only the inserted
\* name for the key (the stored set would not be a union).
InsertReplacingGuessedNames(d, user_id, category, level, name) ==
    IF user_id \notin DOMAIN d.users
    THEN <<d, FALSE, TRUE>>
    ELSE <<[d EXCEPT !.guessed_names =
                [g \in GuessKeys |->
                    IF <<g[1], g[2], g[3]>> = <<user_id, category, level>>
                    THEN (IF g[4] = name THEN 1 ELSE 0)
                    ELSE @[g]]], FALSE, FALSE>>

\* Alternative statement: a plain INSERT into a table without the UNIQUE key.
InsertGuessedName(d, user_id, category, level, name) ==
    LET g == <<user_id, category, level, name>> IN
    IF user_id \notin DOMAIN d.users
    THEN <<d, FALSE, TRUE>>
    ELSE <<[d EXCEPT !.guessed_names[g] = @ + 1], FALSE, FALSE>>

\* INSERT IGNORE INTO guessed_names: a duplicate of UNIQUE (user_id, category,
\* level, guessed_name), or a user_id the FOREIGN KEY does not find, is
\* skipped with a warning.  The result is <<database, raised, warned>>.
InsertIgnoreGuessedName(d, user_id, category, level, name) ==
    LET g == <<user_id, category, level, name>> IN
    IF d.guessed_names[g] > 0 \/ user_id \notin DOMAIN d.users
    THEN <<d, FALSE, TRUE>>
    ELSE <<[d EXCEPT !.guessed_names[g] = @ + 1], FALSE, FALSE>>

\* Alternative statement: the total is raised, never lowered.
UpdateTotalPointsIfGreater(d, user_id, total_points) ==
    IF user_id \in DOMAIN d.users /\ total_points > d.users[user_id].total_points
    THEN [d EXCEPT !.users[user_id].total_points = total_points]
    ELSE d

\* UPDATE users SET total_points = %s WHERE id = %s
UpdateTotalPoints(d, user_id, total_points) ==
    IF user_id \in DOMAIN d.users
    THEN [d EXCEPT !.users[user_id].total_points = total_points]
    ELSE d

\* DELETE FROM guessed_names WHERE user_id = %s
DeleteGuessedNames(d, user_id) ==
    [d EXCEPT !.guessed_names = [g \in GuessKeys |-> IF g[1] = user_id THEN 0 ELSE @[g]]]

\* DELETE FROM user_category_progress WHERE user_id = %s
DeleteProgress(d, user_id) ==
    [d EXCEPT !.user_category_progress =
                  [k \in ProgressKeys |-> IF k[1] = user_id THEN <<>> ELSE @[k]]]

\* Alternative statement: tables without ON DELETE CASCADE.
DeleteUserRowOnly(d, user_id) ==
    [d EXCEPT !.users = [i \in DOMAIN @ \ {user_id} |-> @[i]]]

\* DELETE FROM users WHERE id = %s: the FOREIGN KEYs of both other tables
\* are ON DELETE CASCADE.
DeleteUser(d, user_id) ==
    LET c == DeleteProgress(DeleteGuessedNames(d, user_id), user_id)
    IN  [c EXCEPT !.users = [i \in DOMAIN @ \ {user_id} |-> @[i]]]

\* The stored guessed set of a key.
GuessedSet(d, user_id, category, level) ==
    {n \in Names : d.guessed_names[<<user_id, category, level, n>>] > 0}

----------------------------------------------------------------------------
(* LoginModule: the guessed names a registration saves and a login returns. *)
(* A level key is a sequence of pieces, each the text "level_" or one       *)
(* character, so that "level_01" is <<"level_", "0", "1">>.                 *)

DigitChars == <<"0", "1", "2", "3", "4", "5", "6", "7", "8", "9">>

\* level_str.replace("level_", "")
Replaced(level_str) ==
    LET other(piece) == piece # "level_" IN SelectSeq(level_str, other)

\* int(text) raises ValueError unless text is a run of decimal digits.
IsInt(text) == text # <<>> /\ \A i \in DOMAIN text : text[i] \in Range(DigitChars)

\* int(text)
RECURSIVE IntOf(_)
IntOf(text) ==
    IF text = <<>> THEN 0
    ELSE 10 * IntOf(SubSeq(text, 1, Len(text) - 1))
            + ((CHOOSE i \in DOMAIN DigitChars : DigitChars[i] = text[Len(text)]) - 1)

\* str(n) of a level n >= 0
RECURSIVE Decimal(_)
Decimal(n) ==
    IF n < 10 THEN <<DigitChars[n + 1]>>
    ELSE Decimal(n \div 10) \o <<DigitChars[(n % 10) + 1]>>

\* Alternative key: the level number alone.
BareLevel(level) == Decimal(level)

\* Line 227: f"level_{row['level']}"
LevelKey(level) == <<"level_">> \o Decimal(level)

\* INSERT INTO guessed_names ... ON DUPLICATE KEY UPDATE guessed_name =
\* guessed_name: a duplicate of the UNIQUE key is left as it is; a user_id the
\* FOREIGN KEY does not find raises.  The result is <<database, raised, warned>>.
InsertOrKeepGuessedName(d, user_id, category, level, name) ==
    LET g == <<user_id, category, level, name>> IN
    IF user_id \notin DOMAIN d.users
    THEN <<d, TRUE, FALSE>>
    ELSE IF d.guessed_names[g] > 0
         THEN <<d, FALSE, FALSE>>
         ELSE <<[d EXCEPT !.guessed_names[g] = @ + 1], FALSE, FALSE>>

\* Lines 104-105: one execute_query per name of the list.
RECURSIVE SaveNames(_, _, _, _, _)
SaveNames(d, user_id, category, level, names) ==
    IF names = <<>> THEN d
    ELSE SaveNames(InsertOrKeepGuessedName(d, user_id, category, level, Head(names))[1],
                   user_id, category, level, Tail(names))

\* _save_guessed_names: guessed_names is the request's dict in iteration
\* order, one entry [category, level_str, names] per (category, key).  The
\* ValueError of int() is caught at line 109 and ends the save.
RECURSIVE SaveGuessedNames(_, _, _)
SaveGuessedNames(d, user_id, guessed_names) ==
    IF guessed_names = <<>> THEN d
    ELSE LET e == Head(guessed_names)
             text == Replaced(e.level_str)
         IN  IF ~IsInt(text) THEN d
             ELSE SaveGuessedNames(
                      SaveNames(d, user_id, e.category, IntOf(text),
                                ListOf(e.names, NameOrder)),
                      user_id, Tail(guessed_names))

\* _get_guessed_names: category -> level key -> the names of the rows (a
\* list in the order the SELECT returns them, kept as a set).
GetGuessedNames(d, user_id) ==
    LET results == {g \in DOMAIN d.guessed_names : g[1] = user_id /\ d.guessed_names[g] > 0}
    IN  [category \in {g[2] : g \in results} |->
            [level \in {LevelKey(g[3]) : g \in {h \in results : h[2] = category}} |->
                {g[4] : g \in {h \in results : h[2] = category /\ LevelKey(h[3]) = level}}]]

\* INSERT INTO users (username, email, password): the first user gets id 1.
InsertUser(d, username) ==
    IF d.users = <<>> THEN [d EXCEPT !.users = (1 :> [username |-> username, total_points |-> 0])]
    ELSE d

NoLogin == [pc |-> "none", guessed_names |-> <<>>, returned |-> <<>>]

\* The level keys of the requests: well-formed ones, ones that spell the
\* level otherwise and ones int() rejects.
LevelStrs ==
    {<<"level_", "1">>, <<"level_", "2">>, <<"level_", "0", "1">>, <<"1">>,
     <<"level_", "level_", "2">>, <<"level_", "x">>, <<"level_">>}

GuessedEntries ==
    [category : RewardCategories, level_str : LevelStrs, names : SUBSET {"alice", "bob"}]

\* The guessed_names of a registration: at most two (category, key) entries.
GuessedDicts ==
    {<<>>} \cup {<<e>> : e \in GuessedEntries} \cup
    {p \in {<<e, f>> : e \in GuessedEntries, f \in GuessedEntries} :
        <<p[1].category, p[1].level_str>> # <<p[2].category, p[2].level_str>>}

----------------------------------------------------------------------------
(* RewardsModule.update_rewards, statement by statement.  A request in     *)
(* progress is a record: the request's fields, the handler's locals and    *)
(* pc, the statement it executes next.  failed collects the statements     *)
(* whose exception fetch_from_db or execute_query caught and logged.       *)

\* FunctionHelperModule._load_categories_data: category -> {levels: maxLevel}
LoadCategoriesData == [actors |-> [levels |-> 2]]

\* max_level = int(category_data.get(category, {}).get("levels", 1))
MaxLevel(category) ==
    IF category \in DOMAIN LoadCategoriesData THEN LoadCategoriesData[category].levels ELSE 1

\* _get_names_from_yaml: the lower-cased names of (category, level), [] when
\* the level or the category is not in the YAML.
NamesFromYaml(cat, category, level) ==
    IF ToString(level) \notin DOMAIN cat.names THEN {}
    ELSE LET level_data == cat.names[ToString(level)] IN
         IF category \in DOMAIN level_data
         THEN {Lower(level_data[category][i]) : i \in DOMAIN level_data[category]}
         ELSE {}

Idle ==
    [pc |-> "idle", username |-> "", category |-> "", level |-> 0, points |-> 0,
     guessed_names |-> {}, total_points |-> <<>>, fails |-> {}, user_id |-> 0,
     missing_names |-> {}, max_level |-> 0, progress_data |-> <<>>, todo |-> <<>>,
     status |-> 0, levelUp |-> FALSE, endGame |-> FALSE, failed |-> {}, warned |-> {},
     absent |-> {}, accessed |-> FALSE, route |-> ""]

\* Lines 94-106: the request's fields; a missing username is answered 400.
\* total_points is <<>> when the request carries none; absent names the
\* other fields the request does not carry (data.get gives None); fails
\* names the statements of this request at which the driver raises.
Begin(username, category, level, points, guessed_names, total_points, fails, absent) ==
    LET r == [Idle EXCEPT !.username = username, !.category = category, !.level = level,
                          !.points = points, !.guessed_names = guessed_names,
                          !.total_points = total_points, !.fails = fails,
                          !.absent = absent, !.route = "/update-rewards"]
    IN  IF username = ""
        THEN [r EXCEPT !.pc = "done", !.status = 400]
        ELSE [r EXCEPT !.pc = "select_user"]

\* LoginModule.delete_user_request (lines 44-55): a missing user_id is
\* answered 400.  category and level are the client's, not the request's.
BeginDelete(user_id, category, level, fails) ==
    LET r == [Idle EXCEPT !.user_id = user_id, !.category = category, !.level = level,
                          !.fails = fails, !.route = "/delete-user"]
    IN  IF user_id = 0
        THEN [r EXCEPT !.pc = "done", !.status = 400]
        ELSE [r EXCEPT !.pc = "delete_guessed"]

\* Alternative decision: one guessed catalog name is enough.
MissingNamesUnlessAnyGuessed(cat, d, r) ==
    IF NamesFromYaml(cat, r.category, r.level) \cap r.guessed_names # {}
    THEN {}
    ELSE NamesFromYaml(cat, r.category, r.level)

\* Alternative decision: the names stored for the key count as guessed too.
MissingNamesWithStored(cat, d, r) ==
    NamesFromYaml(cat, r.category, r.level)
        \ (r.guessed_names \cup GuessedSet(d, r.user_id, r.category, r.level))

\* Alternative comparison: an equal score is written too.
NewPointsAtLeast(new_points, current_points) == new_points >= current_points

\* Alternative comparison: any different score overwrites the stored one.
NewPointsDiffer(new_points, current_points) == new_points # current_points

\* Lines 118-124: missing_names = set(all_names_at_level) - set(guessed_names)
MissingNames(cat, d, r) ==
    NamesFromYaml(cat, r.category, r.level) \ r.guessed_names

\* Line 148: "Only update if new points are greater".
NewPointsGreater(new_points, current_points) == new_points > current_points

\* Alternative response: the end of the game is flagged whenever no name is
\* missing.
RespondEndingAlways(r) ==
    [r EXCEPT !.pc = "done", !.status = 200, !.progress_data = <<>>,
              !.levelUp = (r.missing_names = {} /\ r.level < r.max_level),
              !.endGame = (r.missing_names = {})]

\* Lines 184-203: the flags and the 200 response; the locals die.
Respond(r) ==
    [r EXCEPT !.pc = "done", !.status = 200, !.progress_data = <<>>,
              !.levelUp = (r.missing_names = {} /\ r.level < r.max_level),
              !.endGame = (r.missing_names = {} /\ ~(r.level < r.max_level))]

\* An exception nothing in the handler catches: Flask answers 500.
Unhandled(r) ==
    [r EXCEPT !.pc = "done", !.status = 500, !.progress_data = <<>>, !.todo = <<>>]

\* Lines 162-182: what follows the score write.
AfterScore(r) ==
    IF r.todo # <<>> THEN [r EXCEPT !.pc = "insert_guess"]
    ELSE IF r.total_points # <<>> THEN [r EXCEPT !.pc = "update_total"]
    ELSE Respond(r)

\* The statement r executes next.
Slot(r) == IF r.pc = "insert_guess" THEN Head(r.todo) ELSE r.pc

\* fetch_from_db / execute_query around one statement: an exception (the
\* driver's, at a statement of r.fails, or the statement's own) is logged and
\* the statement has no effect; a warning is not an exception.  stmt is
\* <<database, raised, warned>>.
Executed(d, r, stmt) ==
    IF Slot(r) \in r.fails \/ stmt[2]
    THEN <<d, [r EXCEPT !.failed = @ \cup {Slot(r)}, !.accessed = TRUE]>>
    ELSE <<stmt[1], [r EXCEPT !.warned = IF stmt[3] THEN @ \cup {Slot(r)} ELSE @,
                              !.accessed = TRUE]>>

\* One statement of the handler on database d.  The result is
\* <<database, request>>.
Step(cat, d, r) ==
    CASE r.pc = "select_user" ->
            \* lines 108-124 and 135-138
            LET x == Executed(d, r, <<d, FALSE, FALSE>>)
                user_data == IF x[2].failed # r.failed THEN {}
                             ELSE SelectUserIds(d, r.username)
            IN  IF user_data = {}
                THEN <<d, [x[2] EXCEPT !.pc = "done", !.status = 404]>>
                ELSE LET u == [x[2] EXCEPT !.user_id = CHOOSE id \in user_data : TRUE] IN
                     <<d, [u EXCEPT !.pc = "select_progress",
                                    !.missing_names = MissingNames(cat, d, u),
                                    !.max_level = MaxLevel(r.category)]>>
      [] r.pc = "select_progress" ->
            \* lines 140-148
            LET x == Executed(d, r, <<d, FALSE, FALSE>>)
                progress_data == IF x[2].failed # r.failed THEN <<>>
                                 ELSE SelectPoints(d, r.user_id, r.category, r.level)
                current_points == IF progress_data # <<>> THEN progress_data[1] ELSE 0
                g == [x[2] EXCEPT !.progress_data = progress_data,
                                  !.todo = ListOf(r.guessed_names, NameOrder)]
            IN  IF "points" \in r.absent
                THEN \* None > current_points: TypeError
                     <<d, Unhandled(g)>>
                ELSE IF NewPointsGreater(r.points, current_points)
                THEN <<d, [g EXCEPT !.pc = "write_points"]>>
                ELSE <<d, AfterScore(g)>>
      [] r.pc = "write_points" ->
            \* lines 149-160
            LET x == Executed(d, r,
                        IF r.progress_data # <<>>
                        THEN <<UpdatePoints(d, r.user_id, r.category, r.level, r.points), FALSE, FALSE>>
                        ELSE InsertProgress(d, r.user_id, r.category, r.level, r.points))
            IN  <<x[1], AfterScore(x[2])>>
      [] r.pc = "insert_guess" ->
            \* lines 166-171
            LET x == Executed(d, r, InsertIgnoreGuessedName(d, r.user_id, r.category,
                                                            r.level, Head(r.todo)))
            IN  <<x[1], AfterScore([x[2] EXCEPT !.todo = Tail(r.todo)])>>
      [] r.pc = "update_total" ->
            \* lines 174-182
            LET x == Executed(d, r, <<UpdateTotalPoints(d, r.user_id, r.total_points[1]),
                                   FALSE, FALSE>>)
            IN  <<x[1], Respond(x[2])>>
      [] r.pc = "delete_guessed" ->
            \* LoginModule.delete_user_data, line 253
            LET x == Executed(d, r, <<DeleteGuessedNames(d, r.user_id), FALSE, FALSE>>)
            IN  <<x[1], [x[2] EXCEPT !.pc = "delete_progress"]>>
      [] r.pc = "delete_progress" ->
            \* line 257
            LET x == Executed(d, r, <<DeleteProgress(d, r.user_id), FALSE, FALSE>>)
            IN  <<x[1], [x[2] EXCEPT !.pc = "delete_user"]>>
      [] r.pc = "delete_user" ->
            \* lines 261-264: the answer is 200 whatever happened
            LET x == Executed(d, r, <<DeleteUser(d, r.user_id), FALSE, FALSE>>)
            IN  <<x[1], [x[2] EXCEPT !.pc = "done", !.status = 200]>>

\* The whole handler with no other request in between.
RECURSIVE Run(_, _, _)
Run(cat, d, r) ==
    IF r.pc = "done" THEN <<d, r>>
    ELSE LET s == Step(cat, d, r) IN Run(cat, s[1], s[2])

----------------------------------------------------------------------------
(* The requests and the failures the specifications draw from.  The client *)
(* of a behaviour plays one category and level, drawn in Init: all its     *)
(* requests are for that category and level.                               *)

MaxPoints == 2

MaxFailures == 1

PointValues == 0..MaxPoints

TotalValues == {<<>>, <<0>>, <<MaxPoints>>}

\* The statements of a request that can raise.
FailSlots(guessed_names, total_points) ==
    {"select_user", "select_progress", "write_points"} \cup guessed_names
        \cup (IF total_points # <<>> THEN {"update_total"} ELSE {})

FailSets(guessed_names, total_points) ==
    {F \in SUBSET FailSlots(guessed_names, total_points) : Cardinality(F) <= MaxFailures}

\* <<username, points, guessed_names, total_points, failing statements,
\*   absent fields>>
RewardRequests ==
    {<<"zed", 0, {}, <<>>, {}, {}>>, <<"", 0, {}, <<>>, {}, {}>>} \cup
    {<<u, 0, {"bob"}, <<MaxPoints>>, {}, {"points"}>> : u \in Usernames} \cup
    UNION {{<<"ann", p, g, t, F, {}>> : F \in FailSets(g, t)} :
              p \in PointValues, g \in SUBSET Names, t \in TotalValues}

\* Catalogs of the reward specifications: "actors" at levels "1" and "2", or
\* no catalog at all.
RewardCatalogs ==
    {Unavailable} \cup
    {[names |-> [l \in {"1", "2"} |->
                    [c \in Categories |-> IF c = "actors" THEN ListOf(S, NameOrder) ELSE <<>>]],
      celeb |-> [l \in {"1", "2"} |->
                    [n \in S |-> [categories |-> <<"actors">>, facts |-> FactsOf(n)]]]] :
        S \in {{"alice", "bob"}, {"Alice", "bob"}}}

\* POST /update-rewards, served with no other request in between.
UpdateRewards ==
    /\ req[1].pc = "idle"
    /\ \E r \in RewardRequests :
          LET s == Run(catalog, db,
                       Begin(r[1], req[1].category, req[1].level, r[2], r[3], r[4], r[5],
                             r[6]))
          IN  /\ db' = s[1]
              /\ req' = [req EXCEPT ![1] = s[2]]
    /\ UNCHANGED <<catalog, q, login>>

\* The response reaches the client, which may send its next request.
Deliver(c) ==
    /\ req[c].pc = "done"
    /\ req' = [req EXCEPT ![c] = [Idle EXCEPT !.category = req[c].category,
                                              !.level = req[c].level]]
    /\ UNCHANGED <<catalog, db, q, login>>

Init ==
    /\ catalog \in RewardCatalogs
    /\ db = InitialDb
    /\ q = NoQuestion
    /\ login = NoLogin
    /\ \E c \in RewardCategories, l \in RewardLevels :
          req = [i \in Clients |-> [Idle EXCEPT !.category = c, !.level = l]]

Next ==
    \/ UpdateRewards
    \/ Deliver(1)

Spec == Init /\ [][Next]_vars

\* A store in use: "ann" and "zed" are registered, and every key but the one
\* "ann" is about to play has a progress row and all its names guessed.  The
\* catalog lists "alice" and "bob" as actors, the category "ann" plays.
PopulatedDb(category, level) ==
    [users |-> (1 :> [username |-> "ann", total_points |-> 1]) @@
               (2 :> [username |-> "zed", total_points |-> 1]),
     user_category_progress |->
         [k \in ProgressKeys |-> IF k = <<1, category, level>> THEN <<>> ELSE <<1>>],
     guessed_names |->
         [g \in GuessKeys |-> IF <<g[1], g[2], g[3]>> = <<1, category, level>> THEN 0 ELSE 1]]

InitPopulated ==
    /\ catalog \in RewardCatalogs
    /\ NamesFromYaml(catalog, "actors", 1) = {"alice", "bob"}
    /\ "alice" \in DOMAIN catalog.celeb["1"]
    /\ q = NoQuestion
    /\ login = NoLogin
    /\ \E l \in RewardLevels :
          /\ req = [i \in Clients |-> [Idle EXCEPT !.category = "actors", !.level = l]]
          /\ db = PopulatedDb("actors", l)

SpecPopulated == InitPopulated /\ [][Next]_vars

\* Requests whose points are any integer of the range, negative ones too
\* (line 96 takes whatever number the body carries).
SignedPoints == (0 - MaxPoints)..MaxPoints

SignedRequests ==
    UNION {{<<"ann", p, g, t, F, {}>> : F \in FailSets(g, t)} :
              p \in SignedPoints, g \in {{}, {"alice"}}, t \in {<<>>, <<0>>}}

UpdateRewardsSigned ==
    /\ req[1].pc = "idle"
    /\ \E r \in SignedRequests :
          LET s == Run(catalog, db,
                       Begin(r[1], req[1].category, req[1].level, r[2], r[3], r[4], r[5],
                             r[6]))
          IN  /\ db' = s[1]
              /\ req' = [req EXCEPT ![1] = s[2]]
    /\ UNCHANGED <<catalog, q, login>>

NextSigned ==
    \/ UpdateRewardsSigned
    \/ Deliver(1)

SpecSigned == Init /\ [][NextSigned]_vars

----------------------------------------------------------------------------
(* Concurrent requests: Flask serves each request on a thread of its own,   *)
(* and every statement is committed by itself (execute_query), so two       *)
(* requests interleave statement by statement.                              *)

ConcurrentRequests ==
    {<<"ann", p, g, <<>>, {}, {}>> : p \in PointValues, g \in {{}} \cup {{n} : n \in Names}}

\* A request of client c arrives.
Arrive(c) ==
    /\ req[c].pc = "idle"
    /\ \E r \in ConcurrentRequests :
          req' = [req EXCEPT ![c] = Begin(r[1], req[c].category, req[c].level,
                                          r[2], r[3], r[4], r[5], r[6])]
    /\ UNCHANGED <<catalog, db, q, login>>

\* The handler of client c executes its next statement.
Statement(c) ==
    /\ req[c].pc \notin {"idle", "done"}
    /\ LET s == Step(catalog, db, req[c])
       IN  /\ db' = s[1]
           /\ req' = [req EXCEPT ![c] = s[2]]
    /\ UNCHANGED <<catalog, q, login>>

\* Both clients play "actors" at level 1.
InitC ==
    /\ catalog \in RewardCatalogs
    /\ db = InitialDb
    /\ q = NoQuestion
    /\ login = NoLogin
    /\ req = [i \in Clients |-> [Idle EXCEPT !.category = "actors", !.level = 1]]

NextC == \E c \in Clients : Arrive(c) \/ Statement(c) \/ Deliver(c)

SpecC == InitC /\ [][NextC]_vars

----------------------------------------------------------------------------
(* POST /delete-user.                                                      *)

DeleteSlots == {"delete_guessed", "delete_progress", "delete_user"}

\* <<user_id, failing statements>>; user_id 0 stands for a missing one.
DeleteRequests ==
    {<<u, F>> : u \in {0} \cup UserIds,
                F \in {F \in SUBSET DeleteSlots : Cardinality(F) <= MaxFailures}}

\* POST /delete-user, served with no other request in between.
DeleteUserRequest ==
    /\ req[1].pc = "idle"
    /\ \E r \in DeleteRequests :
          LET s == Run(catalog, db, BeginDelete(r[1], req[1].category, req[1].level, r[2]))
          IN  /\ db' = s[1]
              /\ req' = [req EXCEPT ![1] = s[2]]
    /\ UNCHANGED <<catalog, q, login>>

NextDelete ==
    \/ UpdateRewards
    \/ DeleteUserRequest
    \/ Deliver(1)

SpecDelete == Init /\ [][NextDelete]_vars

\* A /delete-user request of client c arrives.
ArriveDelete(c) ==
    /\ req[c].pc = "idle"
    /\ \E r \in DeleteRequests :
          req' = [req EXCEPT ![c] = BeginDelete(r[1], req[c].category, req[c].level, r[2])]
    /\ UNCHANGED <<catalog, db, q, login>>

\* Client 1 sends /update-rewards requests while client 2 sends /delete-user
\* requests; the handlers interleave statement by statement.
NextDeleteC ==
    \/ Arrive(1)
    \/ ArriveDelete(2)
    \/ \E c \in Clients : Statement(c) \/ Deliver(c)

SpecDeleteC == InitC /\ [][NextDeleteC]_vars

\* Both clients send requests of both routes; the catalog lists "alice" and
\* "bob" as actors.
InitAllC ==
    /\ InitC
    /\ NamesFromYaml(catalog, "actors", 1) = {"alice", "bob"}
    /\ "alice" \in DOMAIN catalog.celeb["1"]

NextAllC ==
    \E c \in Clients : Arrive(c) \/ ArriveDelete(c) \/ Statement(c) \/ Deliver(c)

SpecAllC == InitAllC /\ [][NextAllC]_vars

----------------------------------------------------------------------------
QuestionRequests ==
    {QReply(level, category, guessed, 0, "pending") :
        level \in RequestLevels, category \in RequestCategories, guessed \in SUBSET Names}

InitQ ==
    /\ catalog \in Catalogs
    /\ db = InitialDb
    /\ q \in QuestionRequests
    /\ login = NoLogin
    /\ req = [i \in Clients |-> Idle]

NextQ == GetQuestion

SpecQ == InitQ /\ [][NextQ]_vars

\* Fact selection on its own: one listed name whose record carries any fact
\* list of up to MaxFacts entries (a fact may be listed twice).
MaxFacts == 4

FactLists == UNION {[1..n -> Facts] : n \in 0..MaxFacts}

FactCatalogs ==
    {[names |-> [l \in {"1"} |-> [c \in Categories |->
                    IF c = "actors" THEN <<"bob">> ELSE <<>>]],
      celeb |-> [l \in {"1"} |-> [n \in {"bob"} |->
                    [categories |-> <<"actors">>, facts |-> fl]]]] :
        fl \in FactLists}

InitFacts ==
    /\ catalog \in FactCatalogs
    /\ db = InitialDb
    /\ q = QReply("1", "actors", {}, 0, "pending")
    /\ login = NoLogin
    /\ req = [i \in Clients |-> Idle]

SpecFacts == InitFacts /\ [][NextQ]_vars

----------------------------------------------------------------------------
(* Registration and login.                                                 *)

\* POST /register of "ann" with fresh credentials and no category_progress.
RegisterUser ==
    /\ login.pc = "pending"
    /\ db' = SaveGuessedNames(InsertUser(db, "ann"), 1, login.guessed_names)
    /\ login' = [login EXCEPT !.pc = "registered"]
    /\ UNCHANGED <<catalog, q, req>>

\* POST /login of "ann" with the right password.
LoginUser ==
    /\ login.pc = "registered"
    /\ login' = [login EXCEPT !.pc = "logged_in", !.returned = GetGuessedNames(db, 1)]
    /\ UNCHANGED <<catalog, db, q, req>>

InitLogin ==
    /\ catalog = Unavailable
    /\ db = EmptyDb
    /\ q = NoQuestion
    /\ req = [i \in Clients |-> Idle]
    /\ \E g \in GuessedDicts : login = [NoLogin EXCEPT !.pc = "pending", !.guessed_names = g]

NextLogin ==
    \/ RegisterUser
    \/ LoginUser

SpecLogin == InitLogin /\ [][NextLogin]_vars

----------------------------------------------------------------------------
(* The claims.                                                             *)

(* C1: no-repeat -- a returned question's target is not one of the guessed  *)
(* names of the request.                                                    *)
NoRepeat == q.kind = "question" => q.actor \notin q.guessed_names

\* The candidate pool of a request: the names listed for its category and level.
PoolOf(cat, level, category) ==
    IF level \notin DOMAIN cat.names THEN {}
    ELSE IF category = "mixed"
         THEN UNION {Range(cat.names[level][c]) : c \in Categories}
         ELSE IF category \in Categories THEN Range(cat.names[level][category]) ELSE {}

\* name is guessed, letter case aside.
GuessedIn(name, guessed) == \E g \in guessed : Lower(g) = Lower(name)

(* C9: exhaustion -- with every pool name guessed the response is the       *)
(* NoNamesRemaining signal (status 200, no question); with a pool name not  *)
(* guessed it is not.                                                       *)
Exhaustion ==
    (q.kind \notin {"pending", "none"} /\ q.level \in DOMAIN catalog.names) =>
        LET pool == PoolOf(catalog, q.level, q.request_category)
            all == \A n \in pool : GuessedIn(n, q.guessed_names)
        IN  /\ all => q.kind = "no_names" /\ q.status = 200
            /\ ~all => q.kind # "no_names"

(* C10: distractor disjointness -- target and distractors of a returned     *)
(* question are pairwise distinct.                                          *)
DistractorDisjointness ==
    q.kind = "question" =>
        /\ q.actor \notin Range(q.distractor_names)
        /\ \A i, j \in DOMAIN q.distractor_names :
              i # j => q.distractor_names[i] # q.distractor_names[j]

\* The request of the sequential client and the key it plays.
Last == req[1]

StoredPoints(d, k) ==
    IF d.user_category_progress[k] = <<>> THEN 0 ELSE d.user_category_progress[k][1]

\* A step that serves a whole /update-rewards request of client 1.
Served == req[1].pc = "idle" /\ req'[1].pc = "done"

WriteSlots == {"write_points", "update_total"} \cup Names

(* C2: monotonic score -- no request lowers the stored points of a key, and *)
(* a request with fewer points than stored leaves them as they are.         *)
MonotonicScore ==
    [][\A k \in ProgressKeys :
          /\ StoredPoints(db', k) >= StoredPoints(db, k)
          /\ (Served /\ k = <<1, req'[1].category, req'[1].level>>
                /\ req'[1].points < StoredPoints(db, k))
             => db'.user_category_progress[k] = db.user_category_progress[k]]_vars

\* A lower submission was served after a higher one and the higher one stands.
MonotonicScoreWitness ==
    /\ Last.pc = "done" /\ Last.status = 200 /\ Last.failed = {}
    /\ Last.points > 0
    /\ Last.points < StoredPoints(db, <<1, Last.category, Last.level>>)

(* C3: atomicity -- a request one of whose writes failed leaves the store   *)
(* as it was before the request.                                            *)
Atomicity ==
    [][(Served /\ req'[1].failed \cap WriteSlots # {}) => db' = db]_vars

\* The names the catalog lists for the request's category and level, as
\* spelled in the catalog.
CatalogNames(cat, r) ==
    IF ToString(r.level) \in DOMAIN cat.names /\ r.category \in Categories
    THEN Range(cat.names[ToString(r.level)][r.category]) ELSE {}

(* C5: level-up condition -- a request whose guessed names cover every      *)
(* catalog name of (category, level) is answered levelUp below the          *)
(* category's maximum level and endGame at or above it.                     *)
LevelUpCondition ==
    (Last.pc = "done" /\ Last.status = 200
        /\ CatalogNames(catalog, Last) \subseteq Last.guessed_names) =>
        IF Last.level < MaxLevel(Last.category)
        THEN Last.levelUp /\ ~Last.endGame
        ELSE Last.endGame /\ ~Last.levelUp

\* There is a transition exactly if `guessed` covers the lower-cased catalog.
TransitionIffCovers(r, guessed) ==
    (r.levelUp \/ r.endGame) <=> (NamesFromYaml(catalog, r.category, r.level) \subseteq guessed)

(* C6 as claimed: the transition decision is taken on the guessed names     *)
(* stored for (user, category, level) after the request's inserts.          *)
TransitionOnStoredSet ==
    (Last.pc = "done" /\ Last.status = 200 /\ Last.failed = {}) =>
        TransitionIffCovers(Last, GuessedSet(db, 1, Last.category, Last.level))

(* C6 as amended: the transition decision is taken on the guessed names of  *)
(* the request alone; stored names are not consulted.                       *)
TransitionOnRequestSet ==
    (Last.pc = "done" /\ Last.status = 200) =>
        TransitionIffCovers(Last, Last.guessed_names)

\* The stored set covers the catalog, the request's list does not: no transition.
TransitionOnRequestSetWitness ==
    /\ Last.pc = "done" /\ Last.status = 200 /\ Last.failed = {}
    /\ NamesFromYaml(catalog, Last.category, Last.level) = {"alice", "bob"}
    /\ Last.guessed_names = {"bob"}
    /\ GuessedSet(db, 1, Last.category, Last.level) = {"alice", "bob"}
    /\ ~Last.levelUp /\ ~Last.endGame

(* C7: union semantics -- no step removes a stored guessed name, and a      *)
(* request none of whose inserts failed leaves, for its key, the names      *)
(* stored before united with the names it submitted.                        *)
UnionSemantics ==
    [][/\ \A g \in GuessKeys : db'.guessed_names[g] >= db.guessed_names[g]
       /\ (Served /\ req'[1].status = 200 /\ req'[1].failed \cap Names = {}) =>
             GuessedSet(db', 1, req'[1].category, req'[1].level) =
                 GuessedSet(db, 1, req'[1].category, req'[1].level)
                     \cup req'[1].guessed_names]_vars

\* {"bob"} was submitted after {"alice"}: both are stored.
UnionSemanticsWitness ==
    /\ Last.pc = "done" /\ Last.status = 200 /\ Last.failed = {}
    /\ Last.guessed_names = {"bob"}
    /\ GuessedSet(db, 1, Last.category, Last.level) = {"alice", "bob"}

(* C8: guessed-name idempotence -- there is at most one row per (user,      *)
(* category, level, name); a request whose names are all stored already     *)
(* leaves the guessed-name table unchanged, and the repeated insert raises  *)
(* nothing.                                                                 *)
GuessedNameIdempotence ==
    [][/\ \A g \in GuessKeys : db'.guessed_names[g] <= 1
       /\ Served =>
            /\ (req'[1].fails = {} => req'[1].failed = {})
            /\ (req'[1].guessed_names \subseteq
                    GuessedSet(db, 1, req'[1].category, req'[1].level))
               => db'.guessed_names = db.guessed_names]_vars

\* A request has inserted a name that was stored already.
GuessedNameIdempotenceWitness ==
    /\ Last.pc = "done" /\ Last.status = 200 /\ Last.fails = {}
    /\ Last.warned # {}
    /\ \A g \in GuessKeys : db.guessed_names[g] <= 1

(* C4: concurrent score updates -- when concurrent requests for one key,    *)
(* none of whose statements was made to fail, have all finished, the stored *)
(* points are not below the points any of them submitted.                   *)
ConcurrentMaximum ==
    (\A c \in Clients : req[c].pc = "done" /\ req[c].status = 200 /\ req[c].fails = {}) =>
        \A c \in Clients :
            StoredPoints(db, <<req[c].user_id, req[c].category, req[c].level>>) >= req[c].points

\* The names of the request's pool that are not among its guessed names.
Unguessed(r) == PoolOf(catalog, r.level, r.request_category) \ r.guessed_names

(* C11: non-mixed requests -- the target of a returned question is an       *)
(* unguessed name of (category, level), and every distractor is an          *)
(* unguessed name of (category, level) other than the target.               *)
NonMixedFromUnguessed ==
    (q.kind = "question" /\ q.request_category # "mixed") =>
        /\ q.actor \in Unguessed(q)
        /\ Range(q.distractor_names) \subseteq Unguessed(q) \ {q.actor}

(* C18: case-insensitive removal -- the target of a returned question does  *)
(* not equal a guessed name, letter case aside.                             *)
CaseInsensitiveRemoval ==
    q.kind = "question" => ~GuessedIn(q.actor, q.guessed_names)

\* namesFor(primaryCategory, level): the names listed under the target's
\* first category.
PrimaryNames(r) == PoolOf(catalog, r.level, r.category)

\* The pool of the request without the names guessed, letter case aside.
FilteredPool(r) ==
    {n \in PoolOf(catalog, r.level, r.request_category) : ~GuessedIn(n, r.guessed_names)}

(* C19: distractor count -- a returned question has min(3, number of names  *)
(* of the primary category or the filtered pool other than the target)      *)
(* distractors.                                                             *)
DistractorCount ==
    q.kind = "question" =>
        Len(q.distractor_names) =
            Min(MaxDistractors,
                Cardinality((PrimaryNames(q) \cup FilteredPool(q)) \ {q.actor}))

(* C20: distractor priority -- a distractor that is not a name of the       *)
(* target's primary category appears only when that category has fewer than *)
(* 3 names other than the target, and it is a name of the filtered pool.    *)
DistractorPriority ==
    q.kind = "question" =>
        \A i \in DOMAIN q.distractor_names :
            q.distractor_names[i] \notin PrimaryNames(q) =>
                /\ Cardinality(PrimaryNames(q) \ {q.actor}) < MaxDistractors
                /\ q.distractor_names[i] \in FilteredPool(q)

(* C14: storage errors -- a request one of whose writes failed is not       *)
(* answered with the success response.                                      *)
WriteFailureReported ==
    (Last.pc = "done" /\ Last.failed \cap WriteSlots # {}) => Last.status # 200

(* C15: unknown user -- a request is answered 404 "User not found" exactly  *)
(* when no user has its username, and then the store is left unchanged.     *)
UserNotFound ==
    [][(Served /\ req'[1].username # "") =>
          /\ (req'[1].status = 404) <=> (SelectUserIds(db, req'[1].username) = {})
          /\ req'[1].status = 404 => db' = db]_vars

(* C16: validation -- a request without a username or without points is     *)
(* answered 400, and no statement is sent to the store for it.              *)
ValidationFirst ==
    (Last.pc = "done" /\ (Last.username = "" \/ Last.absent # {})) =>
        Last.status = 400 /\ ~Last.accessed

(* C17: total-points overwrite -- a request answered 200 whose total-points *)
(* statement did not fail leaves the user's total_points equal to the       *)
(* total_points it carries, and leaves the users table as it was if it      *)
(* carries none.                                                            *)
TotalPointsOverwrite ==
    [][(Served /\ req'[1].status = 200 /\ "update_total" \notin req'[1].failed) =>
          IF req'[1].total_points # <<>>
          THEN db'.users[req'[1].user_id].total_points = req'[1].total_points[1]
          ELSE db'.users = db.users]_vars

\* A total of 0 was written for a user whose key holds MaxPoints points.
TotalPointsOverwriteWitness ==
    /\ Last.pc = "done" /\ Last.status = 200 /\ Last.failed = {}
    /\ Last.total_points = <<0>>
    /\ db.users[1].total_points = 0
    /\ StoredPoints(db, <<1, Last.category, Last.level>>) = MaxPoints

\* No progress row and no guessed name is stored for user_id.
NoRowsOf(d, user_id) ==
    /\ \A k \in ProgressKeys : k[1] = user_id => d.user_category_progress[k] = <<>>
    /\ \A g \in GuessKeys : g[1] = user_id => d.guessed_names[g] = 0

\* A step that serves a whole /delete-user request of client 1.
DeleteServed ==
    req[1].pc = "idle" /\ req'[1].pc = "done" /\ req'[1].route = "/delete-user"

(* C12: deleteUser is atomic -- a served /delete-user request leaves the    *)
(* store as it was or without the user and all the user's rows, and it is   *)
(* not answered 200 when one of its statements failed.                      *)
DeleteAtomicity ==
    [][DeleteServed =>
          /\ \/ db' = db
             \/ req'[1].user_id \notin DOMAIN db'.users /\ NoRowsOf(db', req'[1].user_id)
          /\ req'[1].failed # {} => req'[1].status # 200]_vars

(* C13: deleteUser against concurrent applyReward -- a /delete-user request *)
(* whose DELETE FROM users did not fail leaves no user row when it has      *)
(* finished, and at no time is a progress row or a guessed name stored for  *)
(* a user that has no user row.                                             *)
DeleteExcludesRewards ==
    /\ (req[2].route = "/delete-user" /\ req[2].pc = "done" /\ req[2].status = 200
            /\ "delete_user" \notin req[2].failed)
        => req[2].user_id \notin DOMAIN db.users
    /\ \A u \in UserIds : u \notin DOMAIN db.users => NoRowsOf(db, u)

\* An /update-rewards request resolved the user, the user was deleted, and
\* the request's INSERT of the progress row was refused.
DeleteExcludesRewardsWitness ==
    /\ req[2].route = "/delete-user" /\ req[2].pc = "done" /\ req[2].failed = {}
    /\ req[1].route = "/update-rewards" /\ req[1].pc = "done" /\ req[1].status = 200
    /\ req[1].user_id = 1 /\ "write_points" \in req[1].failed
    /\ 1 \notin DOMAIN db.users

(* C21: stale or lower submissions -- a request whose points do not exceed  *)
(* the stored points of its key (0 without a row) leaves every              *)
(* user_category_progress row, and the absence of one, as it was; it is     *)
(* answered 200 when its user lookup found the user.                        *)
StaleSubmissionNoOp ==
    [][(/\ Served /\ req'[1].route = "/update-rewards" /\ req'[1].absent = {}
        /\ req'[1].points <= StoredPoints(db, <<1, req'[1].category, req'[1].level>>)) =>
          /\ db'.user_category_progress = db.user_category_progress
          /\ (SelectUserIds(db, req'[1].username) # {}
                /\ "select_user" \notin req'[1].failed)
                => req'[1].status = 200]_vars

\* A request with 0 points and a guessed name was served: no row for its key.
StaleSubmissionNoOpWitness ==
    /\ Last.pc = "done" /\ Last.status = 200 /\ Last.failed = {}
    /\ Last.points = 0 /\ Last.guessed_names # {}
    /\ GuessedSet(db, 1, Last.category, Last.level) # {}
    /\ db.user_category_progress[<<1, Last.category, Last.level>>] = <<>>

(* C22: no transition while names are missing -- a request is answered with *)
(* levelUp or endGame only if every catalog name of (category, level) is    *)
(* among its guessed names (letter case aside), and then, unless an insert  *)
(* failed, among the names stored for the key as well.                      *)
NoTransitionWhileMissing ==
    (Last.pc = "done" /\ Last.status = 200 /\ (Last.levelUp \/ Last.endGame)) =>
        \A n \in CatalogNames(catalog, Last) :
            /\ GuessedIn(n, Last.guessed_names)
            /\ Last.failed = {} =>
                  GuessedIn(n, GuessedSet(db, Last.user_id, Last.category, Last.level))

\* A request that guessed one of two catalog names is answered without a flag.
NoTransitionWhileMissingWitness ==
    /\ Last.pc = "done" /\ Last.status = 200
    /\ Cardinality(CatalogNames(catalog, Last)) = 2
    /\ Cardinality(Last.guessed_names \cap CatalogNames(catalog, Last)) = 1
    /\ \E n \in CatalogNames(catalog, Last) : ~GuessedIn(n, Last.guessed_names)
    /\ ~Last.levelUp /\ ~Last.endGame

(* C23: catalog unavailable -- while the catalog cannot be loaded no         *)
(* request is answered with levelUp or endGame.                             *)
NoRewardWithoutCatalog ==
    (Last.pc = "done" /\ catalog = Unavailable) => ~Last.levelUp /\ ~Last.endGame

(* C24: unknown category or level -- a request for a level or a category    *)
(* the loaded catalog does not have is declined, not answered 200.          *)
UnknownCategoryDeclined ==
    (/\ Last.pc = "done" /\ Last.route = "/update-rewards" /\ catalog # Unavailable
     /\ \/ ToString(Last.level) \notin DOMAIN catalog.names
        \/ Last.category \notin DOMAIN catalog.names[ToString(Last.level)])
    => Last.status # 200

(* C25: stored guessed names are catalog names -- every stored guessed name *)
(* is, letter case aside, a name the catalog lists for its category and     *)
(* level.                                                                   *)
GuessedNamesInCatalog ==
    \A g \in GuessKeys :
        db.guessed_names[g] > 0 =>
            GuessedIn(g[4], CatalogNames(catalog, [category |-> g[2], level |-> g[3]]))

\* The key of the request of client c, and a step of its handler.
KeyOf(c) == <<req[c].user_id, req[c].category, req[c].level>>

Acts(c) == req'[c] # req[c] /\ req[c].pc \notin {"idle", "done"}

(* C26 as claimed: the first reward of a triple creates its row whatever    *)
(* points it submits -- a handler that has read that its key has no row     *)
(* goes on to insert one.                                                   *)
RowCreatedByAnyFirstReward ==
    [][\A c \in Clients :
          (/\ Acts(c) /\ req[c].pc = "select_progress" /\ req[c].absent = {}
           /\ "select_progress" \notin req'[c].failed
           /\ db.user_category_progress[KeyOf(c)] = <<>>)
          => req'[c].pc = "write_points"]_vars

(* C26 as amended: there is at most one row per (user, category, level); a  *)
(* row appears only by the INSERT of a request with points > 0, and that    *)
(* INSERT, unless it fails, creates the row with the request's points; a    *)
(* row disappears only by a statement of a /delete-user request.            *)
ProgressRowLifecycle ==
    [][/\ \A k \in ProgressKeys : Len(db'.user_category_progress[k]) <= 1
       /\ \A k \in ProgressKeys :
             (db.user_category_progress[k] = <<>> /\ db'.user_category_progress[k] # <<>>) =>
                 \E c \in Clients : /\ Acts(c) /\ req[c].pc = "write_points"
                                    /\ KeyOf(c) = k /\ req[c].points > 0
       /\ \A c \in Clients :
             (/\ Acts(c) /\ req[c].pc = "write_points" /\ req[c].progress_data = <<>>
              /\ "write_points" \notin req'[c].failed)
             => db'.user_category_progress[KeyOf(c)] = <<req[c].points>>
       /\ \A k \in ProgressKeys :
             (db.user_category_progress[k] # <<>> /\ db'.user_category_progress[k] = <<>>) =>
                 \E c \in Clients : /\ Acts(c) /\ req[c].route = "/delete-user"
                                    /\ req[c].user_id = k[1]]_vars

\* Two first submissions raced: one INSERT was refused, one row is stored.
ProgressRowLifecycleWitness ==
    /\ \A c \in Clients : /\ req[c].route = "/update-rewards" /\ req[c].pc = "done"
                          /\ req[c].status = 200 /\ req[c].points > 0
    /\ "write_points" \in req[2].failed /\ req[1].failed = {}
    /\ 1 \in DOMAIN db.users
    /\ Len(db.user_category_progress[<<1, "actors", 1>>]) = 1

(* C27: guessed-name inserts commute -- under every interleaving a step     *)
(* only adds guessed names, each one a name of the request that acts, and   *)
(* when both requests have finished every name of either is stored.         *)
GuessedInsertsCommute ==
    [][/\ \A g \in GuessKeys :
             /\ db'.guessed_names[g] >= db.guessed_names[g]
             /\ db'.guessed_names[g] > db.guessed_names[g] =>
                   \E c \in Clients : /\ Acts(c) /\ KeyOf(c) = <<g[1], g[2], g[3]>>
                                      /\ g[4] \in req[c].guessed_names
       /\ (\A c \in Clients : req'[c].pc = "done" /\ req'[c].status = 200) =>
             \A c \in Clients :
                 req'[c].guessed_names \subseteq GuessedSet(db', 1, req'[c].category, req'[c].level)]_vars

\* Requests with {"alice"} and with {"bob"} have finished: both are stored.
GuessedInsertsCommuteWitness ==
    /\ \A c \in Clients : req[c].pc = "done" /\ req[c].status = 200
    /\ req[1].guessed_names = {"alice"} /\ req[2].guessed_names = {"bob"}
    /\ GuessedSet(db, 1, "actors", 1) = {"alice", "bob"}

\* The record of the target of a returned question.
TargetRecord == catalog.celeb[q.level][q.actor]

(* C28: fact selection -- the facts of a returned question are entries at   *)
(* pairwise distinct positions of the record's fact list, min(3, number of  *)
(* facts) of them: 3 when the record has more than 3, else the whole list.  *)
FactSelection ==
    q.kind = "question" =>
        LET record == TargetRecord.facts
        IN  /\ Len(q.facts) = Min(MaxFactsShown, Len(record))
            /\ Len(record) <= MaxFactsShown => q.facts = record
            /\ \E at \in [DOMAIN q.facts -> DOMAIN record] :
                   /\ \A i, j \in DOMAIN q.facts : at[i] = at[j] => i = j
                   /\ \A i \in DOMAIN q.facts : q.facts[i] = record[at[i]]

\* Three facts were drawn from a record of four, in another order than listed.
FactSelectionWitness ==
    /\ q.kind = "question"
    /\ TargetRecord.facts = <<"f1", "f2", "f3", "f4">>
    /\ q.facts = <<"f4", "f1", "f3">>

\* C29 as claimed: the reported category is the record's first category as
\* the record spells it.
PrimaryCategoryAsListed ==
    q.kind = "question" =>
        /\ q.actor \in DOMAIN catalog.celeb[q.level]
        /\ TargetRecord.categories # <<>>
        /\ q.category = TargetRecord.categories[1]

\* The names the handler can pick the target from.
Available(r) == Range(AvailableNames(catalog.names[r.level], Lower(r.request_category),
                                     r.guessed_names))

\* name has a record with a category at the level.
HasCategory(level, name) ==
    /\ level \in DOMAIN catalog.celeb
    /\ name \in DOMAIN catalog.celeb[level]
    /\ catalog.celeb[level][name].categories # <<>>

(* C29: primary category -- a returned question reports the first category  *)
(* of the target's record in lower case, whatever the request category, and *)
(* its first distractors are names of that category; a target without a     *)
(* record or category gives an error: no question has such a target, and    *)
(* when no selectable name has a category the response is the error.        *)
PrimaryCategory ==
    /\ q.kind = "question" =>
          /\ HasCategory(q.level, q.actor)
          /\ q.category = Lower(TargetRecord.categories[1])
          /\ \A i \in 1..Min(MaxDistractors, Cardinality(PrimaryNames(q) \ {q.actor})) :
                 /\ i \in DOMAIN q.distractor_names
                 /\ q.distractor_names[i] \in PrimaryNames(q) \ {q.actor}
    /\ (q.kind \notin {"pending", "none"} /\ q.level \in DOMAIN catalog.names) =>
          /\ (Available(q) # {} /\ \A n \in Available(q) : ~HasCategory(q.level, n)) =>
                 q.kind = "error" /\ q.status = 500
          /\ (q.kind = "error" /\ q.status = 500) =>
                 \E n \in Available(q) : ~HasCategory(q.level, n)

\* A mixed request got a target listed under two categories whose record
\* puts "Actors" first: the question reports "actors" and draws from it.
PrimaryCategoryWitness ==
    /\ q.kind = "question" /\ q.request_category = "mixed"
    /\ TargetRecord.categories = <<"Actors", "singers">>
    /\ q.category = "actors"
    /\ q.distractor_names # <<>>

(* C30: read-only -- no step of get_question, whatever its outcome, changes *)
(* the progress tables, the guessed names, the totals or the catalog.       *)
QuestionReadOnly == [][db' = db /\ catalog' = catalog /\ req' = req]_vars

\* Questions, the no-names signal and errors were answered for requests that
\* carry guessed names, over a catalog and a store still untouched.
QuestionReadOnlyWitness ==
    /\ q.kind \in {"question", "no_names", "error"}
    /\ q.guessed_names # {}
    /\ db = InitialDb

(* C31: stored points are never negative -- from a store without progress   *)
(* rows, whatever integers the requests submit, every row of                *)
(* user_category_progress has points >= 0.                                  *)
NonNegativePoints ==
    \A k \in ProgressKeys :
        \A i \in DOMAIN db.user_category_progress[k] :
            db.user_category_progress[k][i] >= 0

\* A negative submission was served, for a key with a row and for one without.
NonNegativePointsWitness ==
    /\ Last.pc = "done" /\ Last.status = 200 /\ Last.failed = {}
    /\ Last.points < 0
    /\ db.user_category_progress[<<1, Last.category, Last.level>>] # <<>>

(* C32: exclusive flags -- no response of update_rewards carries both       *)
(* levelUp and endGame, and either flag comes only with the 200 response.   *)
ExclusiveFlags ==
    \A c \in Clients :
        /\ ~(req[c].levelUp /\ req[c].endGame)
        /\ (req[c].levelUp \/ req[c].endGame) => req[c].pc = "done" /\ req[c].status = 200

\* Every name guessed at the last level of the category: the game ends and
\* no level-up is announced.
ExclusiveFlagsWitness ==
    /\ Last.pc = "done" /\ Last.status = 200
    /\ Last.missing_names = {} /\ Last.guessed_names # {}
    /\ Last.level = Last.max_level
    /\ Last.endGame /\ ~Last.levelUp

(* C33: bounded footprint -- a served /update-rewards request changes at    *)
(* most the progress row and the guessed names of its own (user, category,  *)
(* level) and the total of its own user: the rows of other users and of     *)
(* the user's other keys stay as they are, and no row of any table goes.    *)
BoundedFootprint ==
    [][Served =>
          LET key == <<req'[1].user_id, req'[1].category, req'[1].level>> IN
          /\ \A k \in ProgressKeys :
                 /\ k # key => db'.user_category_progress[k] = db.user_category_progress[k]
                 /\ Len(db'.user_category_progress[k]) >= Len(db.user_category_progress[k])
          /\ \A g \in GuessKeys :
                 /\ <<g[1], g[2], g[3]>> # key => db'.guessed_names[g] = db.guessed_names[g]
                 /\ db'.guessed_names[g] >= db.guessed_names[g]
          /\ DOMAIN db'.users = DOMAIN db.users
          /\ \A u \in DOMAIN db.users :
                 /\ u # key[1] => db'.users[u] = db.users[u]
                 /\ db'.users[u].username = db.users[u].username]_vars

\* A request of "ann" raised a stored score, stored a name and set her total
\* while "zed" and her other keys hold rows.
BoundedFootprintWitness ==
    /\ Last.pc = "done" /\ Last.status = 200 /\ Last.failed = {} /\ Last.user_id = 1
    /\ db.user_category_progress[<<1, Last.category, Last.level>>] = <<MaxPoints>>
    /\ Last.points = MaxPoints
    /\ "bob" \in GuessedSet(db, 1, Last.category, Last.level)
    /\ db.users[1].total_points = MaxPoints
    /\ db.users[2].total_points = 1
    /\ \A k \in ProgressKeys : k[1] = 2 => db.user_category_progress[k] = <<1>>

(* C34: no orphan rows -- in every state, between the statements of         *)
(* /delete-user and of the /update-rewards requests that interleave with    *)
(* it too, each progress row and each guessed name belongs to a user that   *)
(* has a row in users.                                                      *)
NoOrphanRows ==
    /\ \A k \in ProgressKeys :
           db.user_category_progress[k] # <<>> => k[1] \in DOMAIN db.users
    /\ \A g \in GuessKeys :
           db.guessed_names[g] > 0 => g[1] \in DOMAIN db.users

\* A /delete-user request has removed the user between the score write of a
\* /update-rewards request and its inserts of guessed names: the score row
\* went with the user.
NoOrphanRowsWitness ==
    /\ req[1].route = "/delete-user" /\ req[1].pc = "done" /\ req[1].failed = {}
    /\ req[2].route = "/update-rewards" /\ req[2].pc = "insert_guess"
    /\ req[2].user_id = 1 /\ req[2].points > 0 /\ req[2].failed = {}
    /\ 1 \notin DOMAIN db.users
    /\ db.user_category_progress[<<1, "actors", 1>>] = <<>>

\* The entries of the registration _save_guessed_names got to: those before
\* the first key int() rejects.
SavedEntries ==
    {i \in DOMAIN login.guessed_names :
        \A j \in 1..i : IsInt(Replaced(login.guessed_names[j].level_str))}

\* The level an entry is stored at.
StoredLevel(e) == IntOf(Replaced(e.level_str))

\* The names saved for a category and a level.
SavedNames(category, level) ==
    UNION {login.guessed_names[i].names :
              i \in {j \in SavedEntries : /\ login.guessed_names[j].category = category
                                          /\ StoredLevel(login.guessed_names[j]) = level}}

\* "level_" and the level in plain decimal, the way a well-formed key is spelled.
PlainKey(level) == <<"level_">> \o Decimal(level)

\* C35 as claimed: names saved under a key made of "level_" and digits come
\* back from the login under that same key.
LevelKeyRoundTrip ==
    login.pc = "logged_in" =>
        \A i \in SavedEntries :
            LET e == login.guessed_names[i] IN
            (/\ Len(e.level_str) >= 2 /\ e.level_str[1] = "level_"
             /\ IsInt(Tail(e.level_str)) /\ e.names # {})
            => /\ e.category \in DOMAIN login.returned
               /\ e.level_str \in DOMAIN login.returned[e.category]
               /\ e.names \subseteq login.returned[e.category][e.level_str]

(* C35: level keys -- the names of every entry the save got to are stored   *)
(* at the integer its key denotes, nothing else is stored, and the login    *)
(* returns them under their category and the key "level_N" with N in plain  *)
(* decimal, together with the names of the other keys that denote N: a key  *)
(* spelled that way comes back unchanged.                                   *)
LevelKeyNormalised ==
    /\ login.pc \in {"registered", "logged_in"} =>
          \A g \in GuessKeys :
              db.guessed_names[g] > 0 <=> (g[1] = 1 /\ g[4] \in SavedNames(g[2], g[3]))
    /\ login.pc = "logged_in" =>
          /\ \A i \in SavedEntries :
                 LET e == login.guessed_names[i] IN
                 e.names # {} =>
                    /\ e.category \in DOMAIN login.returned
                    /\ PlainKey(StoredLevel(e)) \in DOMAIN login.returned[e.category]
                    /\ e.level_str = PlainKey(StoredLevel(e)) =>
                          e.names \subseteq login.returned[e.category][e.level_str]
          /\ \A c \in DOMAIN login.returned :
                 \A k \in DOMAIN login.returned[c] :
                    /\ IsInt(Replaced(k)) /\ k = PlainKey(IntOf(Replaced(k)))
                    /\ login.returned[c][k] = SavedNames(c, IntOf(Replaced(k)))
                    /\ login.returned[c][k] # {}

\* "level_1" came back as saved, and the names saved under "level_01" came
\* back under "level_1".
LevelKeyNormalisedWitness ==
    /\ login.pc = "logged_in"
    /\ login.guessed_names =
           <<[category |-> "actors", level_str |-> <<"level_", "1">>, names |-> {"alice", "bob"}],
             [category |-> "sports", level_str |-> <<"level_", "0", "1">>, names |-> {"bob"}]>>
    /\ login.returned["actors"][<<"level_", "1">>] = {"alice", "bob"}
    /\ login.returned["sports"][<<"level_", "1">>] = {"bob"}

====
